---- MODULE Spec2Model ----
(***************************************************************************)
(* AnkiStreakFixer: the deck resolver, the review selector and the         *)
(* timestamp shifter of src/main.rs, with the date helpers of src/date.rs, *)
(* as a state machine over the collection's tables (decks, cards, revlog,  *)
(* config, col).                                                           *)
(*                                                                         *)
(* Time is kept in the program's own units: revlog ids are epoch           *)
(* milliseconds, cards.mod and the selector's bounds are epoch seconds,    *)
(* calendar dates are whole days since the epoch.                          *)
(***************************************************************************)
EXTENDS Integers, Sequences, FiniteSets, TLC

VARIABLES
    decks,          \* table decks: deck id -> name (a sequence of characters)
    cards,          \* table cards: card id -> [nid, did, mod, usn]
    revlog,         \* table revlog: row -> [id, cid]; ids are unique (primary key)
    scm,            \* col.scm
    rollover,       \* config 'rollover', as get_rollover_hours parses it
    tz,             \* the local timezone: [std, shift, day, hour], see FixedOffset
    args,           \* the command line: [mode, deck, simulate, limit, from, to]
    pc,             \* where the run is
    rid,            \* the rid window computed by generate_rid_string
    matching,       \* fetch_matching_decks' result inside fetch_reviewed_notes
    selected,       \* fetch_reviewed_notes' result
    todo,           \* process_notes: the notes the loop has not reached yet
    done,           \* process_notes: the notes whose loop body completed
    touched,        \* process_notes: affected_cards
    start0,         \* the tables as they were when the run started
    run,            \* number of the run (1 = first)
    prev,           \* how the run before this one ended, and whether it moved a row
    call            \* a helper called on its own: [fn, arg], and ret once returned

vars == <<decks, cards, revlog, scm, rollover, tz, args, pc, rid, matching,
          selected, todo, done, touched, start0, run, prev, call>>

-----------------------------------------------------------------------------
(* Characters and strings. A string is a sequence of one-character strings.  *)

\* The characters of the deck names used here, in code point order. "Ae" and
\* "ae" stand for the letters A-umlaut (U+00C4) and a-umlaut (U+00E4).
CodePoints ==
    << "%", "1", ":", "A", "F", "S", "V", "_", "a", "b", "c", "e", "f", "h", "i",
       "n", "p", "r", "s", "v", "Ae", "ae" >>

Code(c) == CHOOSE i \in 1..Len(CodePoints) : CodePoints[i] = c

\* ASCII case folding, the only folding SQLite's LIKE applies.
AsciiFold(c) ==
    CASE c = "A" -> "a"
      [] c = "F" -> "f"
      [] c = "S" -> "s"
      [] c = "V" -> "v"
      [] OTHER   -> c

\* Unicode case folding, as the unicase crate compares.
UniFold(c) == IF c = "Ae" THEN "ae" ELSE AsciiFold(c)

\* unicase's Ord on two strings: -1, 0 or 1 from the folded characters.
RECURSIVE UniCaseCmp(_, _)
UniCaseCmp(s1, s2) ==
    IF s1 = << >> /\ s2 = << >> THEN 0
    ELSE IF s1 = << >> THEN -1
    ELSE IF s2 = << >> THEN 1
    ELSE LET a == Code(UniFold(Head(s1)))
             b == Code(UniFold(Head(s2)))
         IN  IF a < b THEN -1
             ELSE IF a > b THEN 1
             ELSE UniCaseCmp(Tail(s1), Tail(s2))

\* name COLLATE unicase = other
UniCaseEq(s1, s2) == UniCaseCmp(s1, s2) = 0

\* SQLite's LIKE: % matches any run of characters, _ any one character, any
\* other pattern character matches itself up to ASCII case. A COLLATE on the
\* left operand does not change LIKE.
RECURSIVE SqlLike(_, _)
SqlLike(str, pat) ==
    IF pat = << >> THEN str = << >>
    ELSE IF Head(pat) = "%"
         THEN \E k \in 0..Len(str) : SqlLike(SubSeq(str, k + 1, Len(str)), Tail(pat))
    ELSE IF str = << >> THEN FALSE
    ELSE IF Head(pat) = "_" THEN SqlLike(Tail(str), Tail(pat))
    ELSE /\ AsciiFold(Head(str)) = AsciiFold(Head(pat))
         /\ SqlLike(Tail(str), Tail(pat))

Delimiter == << ":", ":" >>

-----------------------------------------------------------------------------
(* Deck resolver *)

\* WHERE name COLLATE unicase = ?1 OR name COLLATE unicase LIKE ?2 || '::%'
DeckMatches(name, deck_name) ==
    \/ UniCaseEq(name, deck_name)
    \/ SqlLike(name, deck_name \o Delimiter \o << "%" >>)

\* The rows of the query in one of the orders ORDER BY name COLLATE unicase
\* allows (rows whose names compare equal may come in either order).
MatchingOrders(dk, deck_name) ==
    LET ids == {d \in DOMAIN dk : DeckMatches(dk[d], deck_name)}
        n   == Cardinality(ids)
    IN  {[i \in 1..n |-> dk[o[i]]] :
            o \in {f \in [1..n -> ids] :
                     /\ \A i, j \in 1..n : i # j => f[i] # f[j]
                     /\ \A i, j \in 1..n : i < j => UniCaseCmp(dk[f[i]], dk[f[j]]) <= 0}}

\* fetch_matching_decks: the possible results, [ok |-> TRUE, names |-> list],
\* or the error return (mode All, or no matching deck).
fetch_matching_decks(dk, mode, deck_name) ==
    IF mode = "All" THEN {[ok |-> FALSE, names |-> << >>]}
    ELSE LET rs == MatchingOrders(dk, deck_name)
         IN  IF rs = {<< >>} THEN {[ok |-> FALSE, names |-> << >>]}
             ELSE {[ok |-> TRUE, names |-> r] : r \in rs}

-----------------------------------------------------------------------------
(* Calendar utilities (src/date.rs). A date is a day number; an absent    *)
(* Option<NaiveDate> is the empty sequence, Some(d) is <<d>>.              *)

NoDate == << >>
Some(d) == << d >>
IsSome(o) == o # << >>
Unwrap(o) == o[1]

MsPerDay == 86400000
SecsPerDay == 86400
MsPerHour == 3600000
WindowMs == 86400000

\* Both end dates counted, as the doc comment of days_between has it.
days_between_inclusive(from, to) == to - from + 1

days_between(from, to) == to - from

\* The offset taken in seconds instead of milliseconds.
calculate_id_offset_secs(days) == days * SecsPerDay

calculate_id_offset(days) == days * MsPerDay

\* The range check taken as from < to, which lets an empty range through.
validate_dates_EqualAllowed(from_date, to_date, today) ==
    IF IsSome(to_date) /\ Unwrap(to_date) > today
    THEN [kind |-> "to_in_future", dates |-> << Unwrap(to_date) >>]
    ELSE IF IsSome(from_date) /\ Unwrap(from_date) > today
    THEN [kind |-> "from_in_future", dates |-> << Unwrap(from_date) >>]
    ELSE IF IsSome(from_date) /\ IsSome(to_date) /\ Unwrap(from_date) < Unwrap(to_date)
    THEN [kind |-> "invalid_range", dates |-> << Unwrap(from_date), Unwrap(to_date) >>]
    ELSE [kind |-> "ok", dates |-> << >>]

\* validate_dates: kind is "ok" or the check that failed, dates the dates its
\* error message is formatted with, in the message's order.
validate_dates(from_date, to_date, today) ==
    IF IsSome(to_date) /\ Unwrap(to_date) > today
    THEN [kind |-> "to_in_future", dates |-> << Unwrap(to_date) >>]
    ELSE IF IsSome(from_date) /\ Unwrap(from_date) > today
    THEN [kind |-> "from_in_future", dates |-> << Unwrap(from_date) >>]
    ELSE IF IsSome(from_date) /\ IsSome(to_date) /\ Unwrap(from_date) <= Unwrap(to_date)
    THEN [kind |-> "invalid_range", dates |-> << Unwrap(from_date), Unwrap(to_date) >>]
    ELSE [kind |-> "ok", dates |-> << >>]

-----------------------------------------------------------------------------
(* Decimal text of an i64, as format!("{}") writes and str::parse reads it. *)

Digits == << "0", "1", "2", "3", "4", "5", "6", "7", "8", "9" >>

RECURSIVE FormatNat(_)
FormatNat(n) ==
    IF n < 10 THEN << Digits[n + 1] >>
    ELSE FormatNat(n \div 10) \o << Digits[(n % 10) + 1] >>

FormatI64(n) == IF n < 0 THEN << "-" >> \o FormatNat(-n) ELSE FormatNat(n)

IsDigit(c) == \E i \in 1..10 : Digits[i] = c
DigitVal(c) == (CHOOSE i \in 1..10 : Digits[i] = c) - 1

\* An i64 is its sign and the four 16-bit limbs of its magnitude, lowest
\* first: [neg, mag], of value (mag[1] + mag[2] * 2^16 + mag[3] * 2^32 +
\* mag[4] * 2^48), negated when neg.
Limb == 65536
HalfLimb == 32768
Zero64 == [neg |-> FALSE, mag |-> << 0, 0, 0, 0 >>]

\* The digits read so far times ten plus the next digit, limb by limb;
\* ok = FALSE once the magnitude has passed 2^64.
RECURSIVE ParseNat(_, _)
ParseNat(acc, str) ==
    IF str = << >> \/ ~acc.ok THEN acc
    ELSE LET t1 == acc.mag[1] * 10 + DigitVal(Head(str))
             t2 == acc.mag[2] * 10 + t1 \div Limb
             t3 == acc.mag[3] * 10 + t2 \div Limb
             t4 == acc.mag[4] * 10 + t3 \div Limb
         IN  ParseNat([ok |-> t4 < Limb,
                       mag |-> << t1 % Limb, t2 % Limb, t3 % Limb, t4 % Limb >>],
                      Tail(str))

\* str::parse::<i64>: [ok, val]; an optional sign and at least one digit, of
\* a value from -2^63 to 2^63 - 1.
ParseI64(str) ==
    LET body == IF str # << >> /\ Head(str) \in {"-", "+"} THEN Tail(str) ELSE str
        neg  == str # << >> /\ Head(str) = "-"
        m    == ParseNat([ok |-> TRUE, mag |-> Zero64.mag], body)
    IN  IF body = << >> \/ \E i \in 1..Len(body) : ~IsDigit(body[i])
        THEN [ok |-> FALSE, val |-> Zero64]
        ELSE IF ~m.ok \/ (m.mag[4] >= HalfLimb /\ ~(neg /\ m.mag = << 0, 0, 0, HalfLimb >>))
        THEN [ok |-> FALSE, val |-> Zero64]
        ELSE [ok |-> TRUE, val |-> [neg |-> neg /\ m.mag # Zero64.mag, mag |-> m.mag]]

\* An i64 below 2^31 in magnitude, as the millisecond timestamps of days 1
\* to 5 are, as a number.
I64Value(v) ==
    CASE v.mag[3] = 0 /\ v.mag[4] = 0 /\ v.mag[2] < HalfLimb ->
        IF v.neg THEN -(v.mag[2] * Limb + v.mag[1]) ELSE v.mag[2] * Limb + v.mag[1]

\* `as u32`: the low 32 bits of the two's complement, << low limb, high limb >>.
AsU32(v) ==
    IF ~v.neg THEN << v.mag[1], v.mag[2] >>
    ELSE IF v.mag[1] = 0 THEN << 0, (Limb - v.mag[2]) % Limb >>
    ELSE << Limb - v.mag[1], Limb - 1 - v.mag[2] >>

\* str::split(':'): the fields between the colons.
RECURSIVE SplitColon(_, _, _)
SplitColon(str, cur, acc) ==
    IF str = << >> THEN Append(acc, cur)
    ELSE IF Head(str) = ":" THEN SplitColon(Tail(str), << >>, Append(acc, cur))
    ELSE SplitColon(Tail(str), Append(cur, Head(str)), acc)

-----------------------------------------------------------------------------
(* Rollover-window calculator *)

\* NaiveTime::from_hms_opt(rollover_hours as u32, 0, 0) is Some: the cast keeps
\* the low 32 bits of the i64, and from_hms_opt wants an hour below 24.
ValidHour(rollover_hours) ==
    AsU32(rollover_hours)[2] = 0 /\ AsU32(rollover_hours)[1] < 24

\* The hour from_hms_opt is given.
HourOf(rollover_hours) == AsU32(rollover_hours)[1]

\* A local timezone: std is the UTC offset in hours east before its
\* transition and std + shift after it; the wall clock is set forward
\* (shift = 1) or back (shift = -1) by an hour so that the wall-clock hour
\* `hour` of day `day` is skipped or runs twice. shift = 0 is a fixed offset.
FixedOffset(tzHours) == [std |-> tzHours, shift |-> 0, day |-> 0, hour |-> 0]

\* The timestamp, in milliseconds, of date at hour:00:00 under a UTC offset of
\* tzHours hours east, read as UTC.
LocalMillis_AsUtc(date, hour, tzHours) ==
    date * MsPerDay + hour * MsPerHour

\* The timestamp, in milliseconds, of date at hour:00:00 under a UTC offset of
\* tzHours hours east.
LocalMillis(date, hour, tzHours) ==
    date * MsPerDay + hour * MsPerHour - tzHours * MsPerHour

\* chrono::Local.from_local_datetime(date at hour:00:00): the LocalResult,
\* None for a skipped wall-clock time and Ambiguous for a repeated one.
from_local_datetime(date, hour, zone) ==
    IF zone.shift = 0 \/ date < zone.day \/ (date = zone.day /\ hour < zone.hour)
    THEN [kind |-> "Single", offset |-> zone.std]
    ELSE IF date = zone.day /\ hour = zone.hour
    THEN [kind |-> IF zone.shift > 0 THEN "None" ELSE "Ambiguous", offset |-> zone.std]
    ELSE [kind |-> "Single", offset |-> zone.std + zone.shift]

\* generate_rid_string: [ok |-> FALSE] is the panic of an expect().
generate_rid_string(date, rollover_hours, zone) ==
    IF ~ValidHour(rollover_hours) THEN [ok |-> FALSE, str |-> << >>]
    ELSE LET local_rollover_datetime ==
                 from_local_datetime(date, HourOf(rollover_hours), zone)
         IN  IF local_rollover_datetime.kind # "Single"
             THEN [ok |-> FALSE, str |-> << >>]
             ELSE LET start_time == LocalMillis(date, HourOf(rollover_hours),
                                                local_rollover_datetime.offset)
                      end_time   == start_time + WindowMs
                  IN  [ok |-> TRUE,
                       str |-> << "r", "i", "d", ":" >> \o FormatI64(start_time)
                                  \o << ":" >> \o FormatI64(end_time)]

\* process_notes' reading of the rid string (lines 436-437).
RidStart(rid_string) == I64Value(ParseI64(SplitColon(rid_string, << >>, << >>)[2]).val)
RidEnd(rid_string)   == I64Value(ParseI64(SplitColon(rid_string, << >>, << >>)[3]).val)

-----------------------------------------------------------------------------
(* Review selector *)

\* SQLite's integer division, which truncates toward zero.
SqlDiv(a, b) == IF a >= 0 THEN a \div b ELSE -((-a) \div b)

\* The ascending list of a finite set of integers (ORDER BY notes.id).
RECURSIVE SortedList(_)
SortedList(S) ==
    IF S = {} THEN << >>
    ELSE LET m == CHOOSE x \in S : \A y \in S : x <= y
         IN  << m >> \o SortedList(S \ {m})

\* One element too many is kept.
Take_OneMore(list, n) == SubSeq(list, 1, IF n + 1 < Len(list) THEN n + 1 ELSE Len(list))

\* Iterator::take(n)
Take(list, n) == SubSeq(list, 1, IF n < Len(list) THEN n ELSE Len(list))

\* revlog.id / 1000 BETWEEN ?1 AND ?2
InSelectorRange(id, lo, hi) == SqlDiv(id, 1000) >= lo /\ SqlDiv(id, 1000) <= hi

\* The set of note ids of the SELECT DISTINCT of mode All.
ReviewedAll(cd, rl, lo, hi) ==
    {cd[rl[i].cid].nid : i \in {j \in DOMAIN rl : InSelectorRange(rl[j].id, lo, hi)}}

\* The same joined with decks: WHERE decks.name COLLATE unicase = ?3.
ReviewedInDeck(dk, cd, rl, lo, hi, parent_deck) ==
    {cd[rl[i].cid].nid :
        i \in {j \in DOMAIN rl :
                 /\ InSelectorRange(rl[j].id, lo, hi)
                 /\ cd[rl[j].cid].did \in DOMAIN dk
                 /\ UniCaseEq(dk[cd[rl[j].cid].did], parent_deck)}}

\* fetch_reviewed_notes, given the result m of its fetch_matching_decks call:
\* [ok, notes], ok = FALSE for the Err returns.
fetch_reviewed_notes(dk, cd, rl, a, m) ==
    IF ~IsSome(a.from) THEN [ok |-> FALSE, notes |-> << >>]
    ELSE IF a.mode = "Deck" /\ ~m.ok THEN [ok |-> FALSE, notes |-> << >>]
    ELSE LET from_timestamp_start == Unwrap(a.from) * SecsPerDay
             from_timestamp_end   == from_timestamp_start + 86400
             ids == IF a.mode = "All"
                    THEN ReviewedAll(cd, rl, from_timestamp_start, from_timestamp_end)
                    ELSE ReviewedInDeck(dk, cd, rl, from_timestamp_start,
                                        from_timestamp_end, m.names[1])
             notes == SortedList(ids)
         IN  [ok |-> TRUE,
              notes |-> IF a.limit > 0 THEN Take(notes, a.limit) ELSE notes]

-----------------------------------------------------------------------------
(* Timestamp shifter *)

\* process_notes' id_offset (lines 440-445).
IdOffset(a) ==
    IF IsSome(a.from) /\ IsSome(a.to)
    THEN calculate_id_offset(days_between(Unwrap(a.to), Unwrap(a.from)))
    ELSE calculate_id_offset(1)

\* The window taken closed at its end: r.id <= end_time.
RowsToMove_EndInclusive(cd, rl, note_id, start_time, end_time) ==
    {i \in DOMAIN rl : /\ cd[rl[i].cid].nid = note_id
                       /\ rl[i].id >= start_time
                       /\ rl[i].id <= end_time}

\* The rows of update_revlog_query's WHERE for one note: id IN (the ids of the
\* note's review rows with start_time <= id < end_time).
RowsToMove(cd, rl, note_id, start_time, end_time) ==
    LET ids == {rl[j].id : j \in {k \in DOMAIN rl :
                                     /\ cd[rl[k].cid].nid = note_id
                                     /\ rl[k].id >= start_time
                                     /\ rl[k].id < end_time}}
    IN  {i \in DOMAIN rl : rl[i].id \in ids}

\* The offset added: the rows are moved forward in time.
ShiftRows_Forward(rl, rows, id_offset) ==
    [i \in DOMAIN rl |->
        IF i \in rows THEN [rl[i] EXCEPT !.id = @ + id_offset] ELSE rl[i]]

\* SET id = id - ?
ShiftRows(rl, rows, id_offset) ==
    [i \in DOMAIN rl |->
        IF i \in rows THEN [rl[i] EXCEPT !.id = @ - id_offset] ELSE rl[i]]

\* revlog.id is the table's primary key: the UPDATE fails, and changes no row,
\* when a moved row would take the id of a row that stays.
KeyConflict(rl, rows, id_offset) ==
    \E i \in rows : \E j \in DOMAIN rl \ rows : rl[i].id - id_offset = rl[j].id

\* RETURNING cid: the card ids of the moved rows, one per row.
RECURSIVE ReturnedCids(_, _)
ReturnedCids(rl, rows) ==
    IF rows = {} THEN << >>
    ELSE LET i == CHOOSE x \in rows : \A y \in rows : x <= y
         IN  << rl[i].cid >> \o ReturnedCids(rl, rows \ {i})

\* Only the first returned card is updated.
UpdateCards_FirstOnly(cd, note_cards, current_time) ==
    [c \in DOMAIN cd |->
        IF note_cards # << >> /\ note_cards[1] = c
        THEN [cd[c] EXCEPT !.mod = current_time, !.usn = -1]
        ELSE cd[c]]

\* update_cards_query for every returned card id.
UpdateCards(cd, note_cards, current_time) ==
    [c \in DOMAIN cd |->
        IF \E k \in 1..Len(note_cards) : note_cards[k] = c
        THEN [cd[c] EXCEPT !.mod = current_time, !.usn = -1]
        ELSE cd[c]]

\* UPDATE col SET scm = scm + 1
ForceSync(s) == s + 1

-----------------------------------------------------------------------------
(* The collection and the environment of a run *)

Spanish      == << "S", "p", "a", "n", "i", "s", "h" >>
SpanishVerbs == Spanish \o Delimiter \o << "V", "e", "r", "b", "s" >>
French       == << "F", "r", "e", "n", "c", "h" >>
Verbs        == << "V", "e", "r", "b", "s" >>

\* decks(id, name)
DeckTable == (1 :> Spanish) @@ (2 :> SpanishVerbs) @@ (3 :> French)

\* cards(id, nid, did, mod, usn): note 1 has a card in Spanish and one in
\* Spanish::Verbs, note 2 has its only card in Spanish::Verbs.
CardTable ==
    (1 :> [nid |-> 1, did |-> 1, mod |-> 7, usn |-> 5]) @@
    (2 :> [nid |-> 1, did |-> 2, mod |-> 7, usn |-> 5]) @@
    (3 :> [nid |-> 2, did |-> 2, mod |-> 7, usn |-> 5])

\* Local::now().date_naive() and Utc::now().timestamp() of the run.
Today == 3
CurrentTime == Today * SecsPerDay + 43200

\* Largest number of revlog rows of the initial collection.
MaxRevlog == 2

\* Review timestamps around the rollover instants of days 1 to 4.
Stamps ==
    { 1 * MsPerDay + 4 * MsPerHour,
      2 * MsPerDay,
      2 * MsPerDay + 4 * MsPerHour,
      3 * MsPerDay,
      3 * MsPerDay + 4 * MsPerHour - 1,
      3 * MsPerDay + 4 * MsPerHour,
      4 * MsPerDay + 999 }

\* revlog tables: rows in ascending id order, ids unique.
RevlogTables ==
    UNION {{rl \in [1..n -> [id : Stamps, cid : DOMAIN CardTable]] :
               \A i, j \in 1..n : i < j => rl[i].id < rl[j].id} : n \in 1..MaxRevlog}

\* config 'rollover' (the stored text) and the local timezone.
Environments ==
    { [rollover |-> << "4" >>, tz |-> FixedOffset(0)],
      [rollover |-> << "0" >>, tz |-> FixedOffset(0)],
      [rollover |-> << "0" >>, tz |-> FixedOffset(-4)],
      [rollover |-> << "2", "4" >>, tz |-> FixedOffset(0)],
      [rollover |-> << "-", "1" >>, tz |-> FixedOffset(0)],
      [rollover |-> << "4", "2", "9", "4", "9", "6", "7", "3", "0", "0" >>, tz |-> FixedOffset(0)],
      [rollover |-> << "4", "h" >>, tz |-> FixedOffset(0)] }

\* The command lines tried.
Modes == { [mode |-> "All", deck |-> << >>],
           [mode |-> "Deck", deck |-> Spanish],
           [mode |-> "Deck", deck |-> Verbs] }
Limits == {0, 1}
\* --from/--to: neither, three days back to one, two days back to one, an
\* empty range, and --from alone.
DateArgs == { [from |-> NoDate, to |-> NoDate],
              [from |-> Some(3), to |-> Some(1)],
              [from |-> Some(2), to |-> Some(1)],
              [from |-> Some(3), to |-> Some(3)],
              [from |-> Some(3), to |-> NoDate] }

NoArgs == [mode |-> "All", deck |-> << >>, simulate |-> FALSE, limit |-> 0,
           from |-> NoDate, to |-> NoDate]

NoRun == [outcome |-> "none", moved |-> FALSE]

NoCall == [fn |-> "none"]

Tables == [revlog |-> revlog, cards |-> cards, scm |-> scm]

Init ==
    /\ decks = DeckTable
    /\ cards = CardTable
    /\ revlog \in RevlogTables
    /\ scm = 0
    /\ \E e \in Environments : rollover = e.rollover /\ tz = e.tz
    /\ args = NoArgs
    /\ pc = "start"
    /\ rid = << >>
    /\ matching = << >>
    /\ selected = << >>
    /\ todo = << >>
    /\ done = {}
    /\ touched = << >>
    /\ start0 = [revlog |-> revlog, cards |-> cards, scm |-> scm]
    /\ run = 1
    /\ prev = NoRun
    /\ call = NoCall

-----------------------------------------------------------------------------
(* The run *)

\* main(): the both-or-neither check of --from/--to, then validate_dates,
\* then the processor is built.
MainOutcome(a) ==
    IF IsSome(a.from) # IsSome(a.to) THEN "exit_usage"
    ELSE IF validate_dates(a.from, a.to, Today).kind # "ok" THEN "exit_dates"
    ELSE "process"

Main ==
    /\ pc = "start"
    /\ \E m \in Modes, sim \in BOOLEAN, l \in Limits, d \in DateArgs :
          LET a == [mode |-> m.mode, deck |-> m.deck, simulate |-> sim,
                    limit |-> l, from |-> d.from, to |-> d.to]
          IN  /\ args' = a
              /\ pc' = MainOutcome(a)
    /\ UNCHANGED <<decks, cards, revlog, scm, rollover, tz, rid, matching,
                   selected, todo, done, touched, start0, run, prev, call>>

\* get_rollover_hours: the stored text parsed as an i64.
get_rollover_hours(val) == ParseI64(val)

\* process() up to the loop of process_notes: the rollover hour, the rid
\* window, the selection, and process_notes' prologue.
Process ==
    /\ pc = "process"
    /\ LET h == get_rollover_hours(rollover)
           base_date == IF IsSome(args.from) THEN Unwrap(args.from) ELSE Today
           r == generate_rid_string(base_date, h.val, tz)
       IN  IF ~h.ok
           THEN /\ pc' = "error"
                /\ UNCHANGED <<rid, matching, selected, todo>>
           ELSE IF ~r.ok
           THEN /\ pc' = "panic"
                /\ UNCHANGED <<rid, matching, selected, todo>>
           ELSE \E m \in fetch_matching_decks(decks, args.mode, args.deck) :
                  LET f == fetch_reviewed_notes(decks, cards, revlog, args, m)
                  IN  /\ rid' = r.str
                      /\ matching' = IF IsSome(args.from) THEN m.names ELSE << >>
                      /\ selected' = f.notes
                      /\ todo' = f.notes
                      /\ pc' = IF ~f.ok THEN "error"
                               ELSE IF f.notes = << >> THEN "ok"
                               ELSE "notes"
    /\ done' = {}
    /\ touched' = << >>
    /\ UNCHANGED <<decks, cards, revlog, scm, rollover, tz, args, start0, run, prev,
                   call>>

\* One pass of process_notes' loop, for the first note not yet reached.
ProcessNote ==
    /\ pc = "notes"
    /\ todo # << >>
    /\ LET note_id == Head(todo)
           rows == RowsToMove(cards, revlog, note_id, RidStart(rid), RidEnd(rid))
           note_cards == ReturnedCids(revlog, rows)
       IN  IF KeyConflict(revlog, rows, IdOffset(args))
           THEN /\ pc' = "error"
                /\ UNCHANGED <<revlog, cards, scm, todo, done, touched>>
           ELSE /\ revlog' = ShiftRows(revlog, rows, IdOffset(args))
                /\ touched' = touched \o note_cards
                /\ IF args.simulate
                   THEN UNCHANGED <<cards, scm>>
                   ELSE /\ cards' = UpdateCards(cards, note_cards, CurrentTime)
                        /\ scm' = ForceSync(scm)
                /\ todo' = Tail(todo)
                /\ done' = done \cup {note_id}
                /\ pc' = IF Tail(todo) = << >> THEN "ok" ELSE "notes"
    /\ UNCHANGED <<decks, rollover, tz, args, rid, matching, selected, start0, run,
                   prev, call>>

Next == Main \/ Process \/ ProcessNote

Spec == Init /\ [][Next]_vars

-----------------------------------------------------------------------------
(* The tool run a second time with the same command line *)

MaxRuns == 2

Rerun ==
    /\ pc \in {"ok", "error"}
    /\ run < MaxRuns
    /\ run' = run + 1
    /\ prev' = [outcome |-> pc, moved |-> revlog # start0.revlog]
    /\ pc' = MainOutcome(args)
    /\ start0' = Tables
    /\ rid' = << >>
    /\ matching' = << >>
    /\ selected' = << >>
    /\ todo' = << >>
    /\ done' = {}
    /\ touched' = << >>
    /\ UNCHANGED <<decks, cards, revlog, scm, rollover, tz, args, call>>

NextRerun == Main \/ Process \/ ProcessNote \/ Rerun

SpecRerun == Init /\ [][NextRerun]_vars

-----------------------------------------------------------------------------
(* The deck resolver alone, over deck tables and supplied names *)

\* Deck names: a, A, a::b, A::b, ab::c, a-umlaut, A-umlaut::b, b, a_, a1::c.
DeckUniverse ==
    << << "a" >>,
       << "A" >>,
       << "a", ":", ":", "b" >>,
       << "A", ":", ":", "b" >>,
       << "a", "b", ":", ":", "c" >>,
       << "ae" >>,
       << "Ae", ":", ":", "b" >>,
       << "b" >>,
       << "a", "_" >>,
       << "a", "1", ":", ":", "c" >> >>

DeckTables ==
    {[d \in S |-> DeckUniverse[d]] : S \in SUBSET (1..Len(DeckUniverse))}

SuppliedNames ==
    { << "a" >>, << "A" >>, << "a", "_" >>, << "ae" >>, << "Ae" >>, << "c" >> }

InitResolver ==
    /\ decks \in DeckTables
    /\ cards = CardTable
    /\ revlog = << >>
    /\ scm = 0
    /\ rollover = << "4" >>
    /\ tz = FixedOffset(0)
    /\ \E n \in SuppliedNames : args = [NoArgs EXCEPT !.mode = "Deck", !.deck = n]
    /\ pc = "resolve"
    /\ rid = << >>
    /\ matching = << >>
    /\ selected = << >>
    /\ todo = << >>
    /\ done = {}
    /\ touched = << >>
    /\ start0 = [revlog |-> revlog, cards |-> cards, scm |-> scm]
    /\ run = 1
    /\ prev = NoRun
    /\ call = NoCall

\* A call of fetch_matching_decks.
ResolveDecks ==
    /\ pc = "resolve"
    /\ \E m \in fetch_matching_decks(decks, args.mode, args.deck) :
          /\ matching' = m.names
          /\ pc' = IF m.ok THEN "resolved" ELSE "error"
    /\ UNCHANGED <<decks, cards, revlog, scm, rollover, tz, args, rid, selected,
                   todo, done, touched, start0, run, prev, call>>

NextResolver == ResolveDecks

SpecResolver == InitResolver /\ [][NextResolver]_vars

-----------------------------------------------------------------------------
(* The helpers of src/date.rs, and process_notes' offset, called on their own *)

\* The dates the helpers are called with.
CallDates == 1..4
OptionalDates == {NoDate} \cup {Some(d) : d \in CallDates}

\* The day counts calculate_id_offset is called with.
CallDays == -7..7

\* The hours of the day, as the i64 get_rollover_hours returns.
CallHours == {[neg |-> FALSE, mag |-> << h, 0, 0, 0 >>] : h \in 0..23}

\* Local timezones: UTC, UTC-4, UTC+2, one whose clock goes from UTC-5 to
\* UTC-4 on day 2, skipping 02:00 to 03:00, and one whose clock goes from
\* UTC-4 to UTC-5 on day 3, running 01:00 to 02:00 twice.
CallZones ==
    { FixedOffset(0), FixedOffset(-4), FixedOffset(2),
      [std |-> -5, shift |-> 1, day |-> 2, hour |-> 2],
      [std |-> -4, shift |-> -1, day |-> 3, hour |-> 1] }

CallInputs ==
    {[fn |-> "validate_dates",
      arg |-> [from_date |-> f, to_date |-> t, today |-> n]] :
        f \in OptionalDates, t \in OptionalDates, n \in CallDates}
    \cup {[fn |-> "days_between", arg |-> [from |-> f, to |-> t]] :
            f \in CallDates, t \in CallDates}
    \cup {[fn |-> "calculate_id_offset", arg |-> [days |-> n]] : n \in CallDays}
    \cup {[fn |-> "id_offset", arg |-> [from |-> f, to |-> t]] :
            f \in OptionalDates, t \in OptionalDates}
    \cup {[fn |-> "generate_rid_string",
           arg |-> [date |-> d, rollover_hours |-> h, zone |-> z]] :
            d \in CallDates, h \in CallHours, z \in CallZones}

InitCalls ==
    /\ decks = DeckTable
    /\ cards = CardTable
    /\ revlog = << >>
    /\ scm = 0
    /\ rollover = << "4" >>
    /\ tz = FixedOffset(0)
    /\ args = NoArgs
    /\ pc = "call"
    /\ rid = << >>
    /\ matching = << >>
    /\ selected = << >>
    /\ todo = << >>
    /\ done = {}
    /\ touched = << >>
    /\ start0 = [revlog |-> revlog, cards |-> cards, scm |-> scm]
    /\ run = 1
    /\ prev = NoRun
    /\ call \in CallInputs

Return(value) ==
    /\ call' = [fn |-> call.fn, arg |-> call.arg, ret |-> value]
    /\ pc' = "returned"
    /\ UNCHANGED <<decks, cards, revlog, scm, rollover, tz, args, rid, matching,
                   selected, todo, done, touched, start0, run, prev>>

CallValidateDates ==
    /\ pc = "call"
    /\ call.fn = "validate_dates"
    /\ Return(validate_dates(call.arg.from_date, call.arg.to_date, call.arg.today))

CallDaysBetween ==
    /\ pc = "call"
    /\ call.fn = "days_between"
    /\ Return(days_between(call.arg.from, call.arg.to))

CallCalculateIdOffset ==
    /\ pc = "call"
    /\ call.fn = "calculate_id_offset"
    /\ Return(calculate_id_offset(call.arg.days))

\* process_notes' id_offset for the processor's from_date and to_date.
CallIdOffset ==
    /\ pc = "call"
    /\ call.fn = "id_offset"
    /\ Return(IdOffset(call.arg))

CallGenerateRidString ==
    /\ pc = "call"
    /\ call.fn = "generate_rid_string"
    /\ Return(generate_rid_string(call.arg.date, call.arg.rollover_hours, call.arg.zone))

NextCalls ==
    \/ CallValidateDates
    \/ CallDaysBetween
    \/ CallCalculateIdOffset
    \/ CallIdOffset
    \/ CallGenerateRidString

SpecCalls == InitCalls /\ [][NextCalls]_vars

-----------------------------------------------------------------------------
(* Properties *)

\* The run has read its command line and is past main().
Started == pc \in {"notes", "ok", "error", "panic"}

\* The run has computed its window and selected notes.
Selecting == pc \in {"notes", "ok"} /\ rid # << >>

\* The window and the offset of the run.
WinStart == RidStart(rid)
WinEnd == RidEnd(rid)
Offset == IdOffset(args)

\* The note a revlog row belongs to, and the row's id when the run started.
NoteOf(i) == cards[revlog[i].cid].nid
OldId(i) == start0.revlog[i].id
Moved(i) == revlog[i].id # OldId(i)
InWindow(id) == id >= WinStart /\ id < WinEnd

\* C1: a run with the simulate flag set leaves revlog, cards and col.scm as
\* they were before the run.
C1_SimulationWritesNothing ==
    (Started /\ args.simulate) => Tables = start0

\* C2: in a run without the simulate flag, a row of a processed note whose id
\* was in [start, end) has its id lowered by the offset; every other row (id
\* below start, id at or above end, or of a note not processed) keeps its id.
C2_ShiftsExactlyTheWindow ==
    (Selecting /\ ~args.simulate) =>
        \A i \in DOMAIN revlog :
            /\ revlog[i].cid = start0.revlog[i].cid
            /\ revlog[i].id = IF NoteOf(i) \in done /\ InWindow(OldId(i))
                              THEN OldId(i) - Offset
                              ELSE OldId(i)

\* A completed run that moved a row and left the row at id = end of a
\* processed note where it was.
C2_Witness ==
    /\ pc = "ok" /\ ~args.simulate /\ rid # << >>
    /\ \E i \in DOMAIN revlog : Moved(i)
    /\ \E j \in DOMAIN revlog : NoteOf(j) \in done /\ OldId(j) = WinEnd

\* C3: within one run every row's id is its id at the start of the run, or
\* that id minus the offset; a moved row lies below the window's start, so no
\* later note's update can match it again.
C3_NoRowMovedTwice ==
    (pc \in {"notes", "ok", "error"} /\ rid # << >>) =>
        \A i \in DOMAIN revlog :
            /\ revlog[i].id \in {OldId(i), OldId(i) - Offset}
            /\ Moved(i) => revlog[i].id < WinStart /\ Offset >= 86400000

\* A completed run over two notes that moved rows of both.
C3_Witness ==
    /\ pc = "ok" /\ Len(selected) = 2
    /\ \E i, j \in DOMAIN revlog : Moved(i) /\ Moved(j) /\ NoteOf(i) # NoteOf(j)

\* C4: every note the selector returns has a row, through one of its cards,
\* whose id lies in the run's window [start, end).
C4_SelectedNotesHaveRowInWindow ==
    Selecting =>
        \A k \in 1..Len(selected) :
            \E i \in DOMAIN start0.revlog :
                /\ cards[start0.revlog[i].cid].nid = selected[k]
                /\ InWindow(OldId(i))

\* The rollover window of today under the stored rollover hour.
TodayStart == LocalMillis(Today, HourOf(get_rollover_hours(rollover).val), tz.std)

\* C5: with neither --from nor --to, a run without the simulate flag on a
\* collection whose one review row has its id X in today's rollover window
\* ends successfully with that row at X - 86400000, its card's usn = -1 and
\* col.scm raised by exactly 1.
C5_DefaultRunShiftsOneDay ==
    ( /\ pc \in {"ok", "error"}
      /\ ~IsSome(args.from) /\ ~IsSome(args.to) /\ ~args.simulate
      /\ args.mode = "All"
      /\ Len(start0.revlog) = 1
      /\ OldId(1) >= TodayStart /\ OldId(1) < TodayStart + 86400000 )
    => ( /\ pc = "ok"
         /\ revlog[1].id = OldId(1) - 86400000
         /\ cards[revlog[1].cid].usn = -1
         /\ scm = start0.scm + 1 )

\* No row of the table has its id in the run's window.
NoRowInWindow(rl) == \A i \in DOMAIN rl : ~InWindow(rl[i].id)

\* C6: when a first run without the simulate flag has moved rows and left no
\* row in the window, a second run with the same command line selects no
\* note and rewrites no row.
C6_SecondRunSelectsNothing ==
    ( /\ run = 2 /\ Selecting /\ ~args.simulate
      /\ prev.outcome = "ok" /\ prev.moved
      /\ NoRowInWindow(start0.revlog) )
    => (selected = << >> /\ revlog = start0.revlog)

\* C7: after a run without the simulate flag that completes, every card that
\* owned a rewritten row has usn = -1 and mod = the run's current time.
C7_OwningCardsMarked ==
    (pc = "ok" /\ ~args.simulate /\ rid # << >>) =>
        \A i \in DOMAIN revlog :
            Moved(i) => /\ cards[revlog[i].cid].usn = -1
                        /\ cards[revlog[i].cid].mod = CurrentTime

\* A completed run that rewrote rows of two cards, and left a third card alone.
C7_Witness ==
    /\ pc = "ok" /\ ~args.simulate
    /\ \E i, j \in DOMAIN revlog :
          Moved(i) /\ Moved(j) /\ revlog[i].cid # revlog[j].cid
    /\ \E c \in DOMAIN cards : cards[c] = start0.cards[c]

\* C8: after a run without the simulate flag that completes, col.scm has
\* grown by the number of processed notes of which a row was rewritten.
C8_ScmCountsNotesWithRewrites ==
    (pc = "ok" /\ ~args.simulate /\ rid # << >>) =>
        scm = start0.scm
              + Cardinality({n \in done : \E i \in DOMAIN revlog : NoteOf(i) = n /\ Moved(i)})

\* The bounds of the selector's query for the run's --from date.
SelectorLo == Unwrap(args.from) * SecsPerDay
SelectorHi == SelectorLo + 86400

\* C9: in deck mode, when the resolver returns a root and descendants, an
\* unlimited selection holds every note with a card in any resolved deck and
\* a review in the selector's range.
C9_SelectionCoversSubtree ==
    (Selecting /\ args.mode = "Deck" /\ args.limit = 0 /\ Len(matching) > 1) =>
        \A i \in DOMAIN start0.revlog :
            ( /\ InSelectorRange(OldId(i), SelectorLo, SelectorHi)
              /\ \E k \in 1..Len(matching) :
                    decks[cards[start0.revlog[i].cid].did] = matching[k] )
            => \E k \in 1..Len(selected) :
                    selected[k] = cards[start0.revlog[i].cid].nid

\* name starts with prefix, character by character.
HasPrefix(name, prefix) ==
    Len(name) >= Len(prefix) /\ SubSeq(name, 1, Len(prefix)) = prefix

\* name starts with prefix up to Unicode case.
HasPrefixUniCase(name, prefix) ==
    Len(name) >= Len(prefix) /\ UniCaseEq(SubSeq(name, 1, Len(prefix)), prefix)

\* The names the resolver returned, and the names of the deck table.
Returned == {matching[k] : k \in 1..Len(matching)}
DeckNames == {decks[d] : d \in DOMAIN decks}

\* C10: the resolver returns exactly the decks whose name equals the supplied
\* name case-insensitively or starts with the supplied name followed by "::",
\* and an error when there is none. "Starts with" is read both ways: every
\* deck that starts with it literally is returned, and every returned deck
\* starts with it at least up to case.
C10_ResolverReturnsExactSubtree ==
    (pc \in {"resolved", "error"} /\ args.mode = "Deck") =>
        /\ \A n \in DeckNames :
              (UniCaseEq(n, args.deck) \/ HasPrefix(n, args.deck \o Delimiter))
              => n \in Returned
        /\ \A n \in Returned :
              /\ n \in DeckNames
              /\ UniCaseEq(n, args.deck) \/ HasPrefixUniCase(n, args.deck \o Delimiter)
        /\ (pc = "error") = (Returned = {})

\* C11: when a deck whose name equals the supplied name up to case exists,
\* the first element of the resolver's result, which fetch_reviewed_notes
\* takes as parent deck, is such a deck and no descendant or other match.
C11_FirstResultIsExactMatch ==
    (pc = "resolved" /\ \E n \in DeckNames : UniCaseEq(n, args.deck))
    => UniCaseEq(matching[1], args.deck)

\* What the selector returns for the run's arguments with the limit taken off.
Unlimited ==
    fetch_reviewed_notes(decks, start0.cards, start0.revlog,
                         [args EXCEPT !.limit = 0],
                         [ok |-> TRUE, names |-> matching]).notes

StrictlyAscending(list) ==
    \A i, j \in 1..Len(list) : i < j => list[i] < list[j]

\* C12: the selector's result is a duplicate-free ascending list of note
\* ids; with a limit N > 0 it is the first N ids of the unlimited result (all
\* of them when there are fewer), with limit 0 it is the unlimited result.
C12_LimitTakesFirstIds ==
    Selecting =>
        /\ StrictlyAscending(Unlimited)
        /\ StrictlyAscending(selected)
        /\ Len(selected) = IF args.limit > 0 /\ args.limit < Len(Unlimited)
                           THEN args.limit
                           ELSE Len(Unlimited)
        /\ \A k \in 1..Len(selected) : selected[k] = Unlimited[k]

\* A limit of 1 cut a selection of two notes down to the lower id.
C12_Witness ==
    Selecting /\ args.limit = 1 /\ Len(Unlimited) = 2 /\ selected = << Unlimited[1] >>

Returns(fn) == pc = "returned" /\ call.fn = fn

\* C13: validate_dates returns Ok exactly when to is absent or not after
\* today, from is absent or not after today, and one of them is absent or
\* from is strictly after to; otherwise its error is that of a constraint the
\* dates violate and is formatted with the dates of that constraint.
C13_ValidateDates ==
    Returns("validate_dates") =>
        LET f == call.arg.from_date
            t == call.arg.to_date
            n == call.arg.today
            toFuture   == IsSome(t) /\ t[1] > n
            fromFuture == IsSome(f) /\ f[1] > n
            badRange   == IsSome(f) /\ IsSome(t) /\ ~(f[1] > t[1])
        IN  /\ call.ret.kind = "ok" <=> ~toFuture /\ ~fromFuture /\ ~badRange
            /\ call.ret.kind = "to_in_future"   => toFuture /\ call.ret.dates = t
            /\ call.ret.kind = "from_in_future" => fromFuture /\ call.ret.dates = f
            /\ call.ret.kind = "invalid_range"  => badRange /\ call.ret.dates = f \o t
            /\ call.ret.kind \in {"ok", "to_in_future", "from_in_future", "invalid_range"}

\* from == to, neither in the future, was refused as an invalid range.
C13_Witness ==
    /\ Returns("validate_dates")
    /\ call.arg.from_date = Some(2) /\ call.arg.to_date = Some(2) /\ call.arg.today = 3
    /\ call.ret.kind = "invalid_range"

\* The loop of process_notes stopped on a note whose UPDATE of revlog failed.
WriteFailed == Started /\ pc = "error" /\ todo # << >>

\* C14: when the write for one note fails, that note is abandoned and every
\* remaining selected note is still processed before the run ends with an
\* error.
C14_RemainingNotesProcessed ==
    WriteFailed => \A k \in 1..Len(selected) :
                      selected[k] # Head(todo) => selected[k] \in done

\* The stored rollover text parses to an integer from 0 to 23.
RolloverInRange ==
    LET h == ParseI64(rollover)
    IN  h.ok /\ ~h.val.neg /\ h.val.mag[1] < 24
             /\ h.val.mag[2] = 0 /\ h.val.mag[3] = 0 /\ h.val.mag[4] = 0

\* C15: with a stored rollover value that is not an integer from 0 to 23, no
\* window is computed, no note is selected and no row of the store is changed:
\* the run has stopped with an error before.
C15_BadRolloverAborts ==
    (Started /\ ~RolloverInRange) =>
        /\ rid = << >>
        /\ selected = << >>
        /\ Tables = start0
        /\ pc \in {"exit_usage", "exit_dates", "process", "error", "panic"}

ChangeInstant(zone) ==
    (zone.day * 24 + zone.hour + (IF zone.shift < 0 THEN 1 ELSE 0) - zone.std) * 3600000
OffsetAt(zone, t) ==
    IF zone.shift = 0 \/ t < ChangeInstant(zone) THEN zone.std ELSE zone.std + zone.shift

\* The instants at which the zone's wall clock reads hour:00:00 on date.
InstantsOf(zone, date, hour) ==
    {t \in {(date * 24 + hour - o) * 3600000 : o \in {zone.std, zone.std + zone.shift}} :
        t + OffsetAt(zone, t) * 3600000 = (date * 24 + hour) * 3600000}

CalledDate == call.arg.date
CalledHour == call.arg.rollover_hours.mag[1]
CalledZone == call.arg.zone

\* C17 as stated: for every date and every rollover hour from 0 to 23
\* generate_rid_string yields a window whose start is the instant of the local
\* time hour:00:00 of the date and whose end is start + 86_400_000.
C17_EveryDateYieldsWindow ==
    Returns("generate_rid_string") =>
        /\ call.ret.ok
        /\ RidStart(call.ret.str) \in InstantsOf(CalledZone, CalledDate, CalledHour)
        /\ RidEnd(call.ret.str) = RidStart(call.ret.str) + 86400000

\* C17 amended: when the local time hour:00:00 of the date exists exactly once
\* the window starts at its instant and ends 86_400_000 ms later; when a
\* change of the clock skips or repeats it, generate_rid_string panics.
C17_WindowOfUniqueLocalTime ==
    Returns("generate_rid_string") =>
        IF Cardinality(InstantsOf(CalledZone, CalledDate, CalledHour)) = 1
        THEN /\ call.ret.ok
             /\ RidStart(call.ret.str) \in InstantsOf(CalledZone, CalledDate, CalledHour)
             /\ RidEnd(call.ret.str) = RidStart(call.ret.str) + 86400000
        ELSE ~call.ret.ok

\* 04:00 of day 3, a day after the clock was set forward, gave the window
\* that starts at 08:00 UTC.
C17_Witness ==
    /\ Returns("generate_rid_string")
    /\ CalledZone.shift = 1 /\ CalledDate = 3 /\ CalledHour = 4
    /\ call.ret.ok
    /\ RidStart(call.ret.str) = 3 * 86400000 + 8 * 3600000
    /\ RidEnd(call.ret.str) = 4 * 86400000 + 8 * 3600000

\* The start of the rollover window of a date under the run's fixed offset:
\* the instant of the date's local time at the rollover hour.
RolloverStart(date) ==
    (date * 24 + HourOf(get_rollover_hours(rollover).val) - tz.std) * 3600000

ExplicitRange ==
    /\ pc \in {"notes", "ok", "error"} /\ rid # << >>
    /\ ~args.simulate
    /\ IsSome(args.from) /\ IsSome(args.to) /\ args.from[1] > args.to[1]
    /\ tz.shift = 0

\* C18: in a run without the simulate flag over an explicit range, under a
\* fixed UTC offset, every rewritten row lies in the rollover window of toDate
\* and is as far from that window's start as it was from the start of
\* fromDate's window.
C18_RowsLandInToDateWindow ==
    ExplicitRange =>
        \A i \in DOMAIN revlog :
            Moved(i) =>
                /\ RolloverStart(args.to[1]) <= revlog[i].id
                /\ revlog[i].id < RolloverStart(args.to[1]) + 86400000
                /\ revlog[i].id - RolloverStart(args.to[1])
                       = OldId(i) - RolloverStart(args.from[1])

\* A completed run from day 2 back to day 1 moved the review made an instant
\* before the end of day 2's window to the same instant of day 1's window.
C18_Witness ==
    /\ ExplicitRange /\ pc = "ok"
    /\ args.from = Some(2) /\ args.to = Some(1)
    /\ \E i \in DOMAIN revlog :
          /\ OldId(i) = RolloverStart(3) - 1
          /\ revlog[i].id = RolloverStart(2) - 1

====
